---- MODULE Spec2Model ----
(***************************************************************************)
(* A model of download_stats.py: the retrying GET helper, the paginated    *)
(* enumeration of a group's replays, the per-replay fetch / archive /      *)
(* extract loop of main, and the summary table written at the end.         *)
(*                                                                         *)
(* The remote service and the file system are the environment: every       *)
(* network attempt and every file write draws its outcome with \E.         *)
(***************************************************************************)
EXTENDS Integers, Sequences, FiniteSets, TLC

(***************************************************************************)
(* Program constants.                                                      *)
(***************************************************************************)
MAX_RETRY == 4

\* Python's None
None == "None"

\* the values an environment variable can have: unset, empty, or set to v
ConfigValues(v) == {None, "", v}

(***************************************************************************)
(* Bounds of the model.                                                    *)
(***************************************************************************)
\* listing pages the remote serves before it must omit the next-page link
MaxPages == 2

\* stubs the listing endpoint delivers in total, over all pages
MaxIds == 2

\* players in one team's player list
MaxTeam == 2

\* replay identifiers, player names, goal counts and stat profiles
IDS == {"a", "b"}

Names == {"me", "bot"}

GoalValues == {0, 1}

BlueProfiles == {1, 2}

OrangeProfiles == {3}

(***************************************************************************)
(* Sequences.                                                              *)
(***************************************************************************)
SeqsUpTo(S, n) == UNION {[1..k -> S] : k \in 0..n}

RECURSIVE SumSeq(_)
SumSeq(s) == IF s = <<>> THEN 0 ELSE Head(s) + SumSeq(Tail(s))

RECURSIVE ConcatAll(_)
ConcatAll(ss) == IF ss = <<>> THEN <<>> ELSE Head(ss) \o ConcatAll(Tail(ss))

(***************************************************************************)
(* The state of the program and of the files it writes.                    *)
(***************************************************************************)
VARIABLES
    TOKEN, GROUP, PLAYER,   \* module globals read from the environment
    pc,                     \* where the single thread of control is
    err,                    \* the exception that ended the run, or None
    caller,                 \* which function is inside get_with_retry
    url, params,            \* arguments of the current get_with_retry call
    attempt,                \* loop variable of get_with_retry
    calls,                  \* requests.get calls made by the current call
    transients,             \* transient failures seen by the current call
    slept,                  \* delays slept by the current call, in order
    r,                      \* what get_with_retry handed to its caller
    ids,                    \* list_replays: identifiers accumulated so far
    pages,                  \* page bodies the listing endpoint has delivered
    i,                      \* main: position of the for loop in ids
    js,                     \* main: the detail of the current replay
    fetched,                \* details fetch_replay has returned, in order
    archived,               \* identifiers whose archive write has completed
    rows,                   \* main: rows accumulated so far
    files,                  \* stats/<id>.json, per identifier
    summary                 \* summary.csv

vars == <<TOKEN, GROUP, PLAYER, pc, err, caller, url, params, attempt, calls,
          transients, slept, r, ids, pages, i, js, fetched, archived, rows,
          files, summary>>

(***************************************************************************)
(* Match details as the remote serves them.  A stat profile k gives every  *)
(* projected field a value of its own, so that no two fields and no two    *)
(* profiles can be mistaken for one another.                               *)
(***************************************************************************)
Stats(g, k) ==
    [core     |-> [shots |-> 10 + k, goals |-> g,
                   saves |-> 20 + k, assists |-> 30 + k],
     boost    |-> [bpm |-> 50 + k],
     movement |-> [avg_speed |-> 60 + k],
     demo     |-> [inflicted |-> 40 + k]]

Players(names, goals, profiles) ==
    {[name |-> n, stats |-> Stats(g, k)] :
        n \in names, g \in goals, k \in profiles}

Teams(players, n) == {[players |-> ps] : ps \in SeqsUpTo(players, n)}

Matches(idset, dates, blues, oranges) ==
    {[id |-> x, created |-> c, blue |-> b, orange |-> o] :
        x \in idset, c \in dates, b \in blues, o \in oranges}

(***************************************************************************)
(* extract_player_stats                                                    *)
(***************************************************************************)
team_goals(team) ==
    SumSeq([n \in 1..Len(team.players) |->
                team.players[n].stats.core.goals])


\* a variant of line 77 that takes blue only when the name is not on orange
me_on_blue_only(m) ==
    /\ \E n \in 1..Len(m.blue.players) : m.blue.players[n].name = PLAYER
    /\ \A n \in 1..Len(m.orange.players) : m.orange.players[n].name # PLAYER

me_on_blue(m) ==
    \E n \in 1..Len(m.blue.players) : m.blue.players[n].name = PLAYER

\* a variant of line 78 whose two branches both name blue first
your_team_always_blue(m) == m.blue

your_team(m) == IF me_on_blue(m) THEN m.blue ELSE m.orange

other_team(m) == IF me_on_blue(m) THEN m.orange ELSE m.blue

\* a variant of line 79 that compares with >=
outcome_tie_wins(m) ==
    IF team_goals(your_team(m)) >= team_goals(other_team(m))
    THEN "win" ELSE "loss"

outcome(m) ==
    IF team_goals(your_team(m)) > team_goals(other_team(m))
    THEN "win" ELSE "loss"

\* the positions next() can stop at: the players of the team named PLAYER
Mine(team) == {n \in 1..Len(team.players) : team.players[n].name = PLAYER}

\* next(p for p in your_team["players"] if p["name"] == PLAYER)
you(m) ==
    LET t == your_team(m)
        first == CHOOSE n \in Mine(t) : \A k \in Mine(t) : n <= k
    IN  t.players[first]


\* a variant of lines 84-95 whose row depends on how many rows main holds
project_counting(m, p) ==
    [id        |-> m.id,
     date      |-> m.created,
     outcome   |-> outcome(m),
     shots     |-> p.stats.core.shots + Len(rows),
     goals     |-> p.stats.core.goals,
     saves     |-> p.stats.core.saves,
     assists   |-> p.stats.core.assists,
     demos     |-> p.stats.demo.inflicted,
     boost_bpm |-> p.stats.boost.bpm,
     avg_speed |-> p.stats.movement.avg_speed]

project(m, p) ==
    [id        |-> m.id,
     date      |-> m.created,
     outcome   |-> outcome(m),
     shots     |-> p.stats.core.shots,
     goals     |-> p.stats.core.goals,
     saves     |-> p.stats.core.saves,
     assists   |-> p.stats.core.assists,
     demos     |-> p.stats.demo.inflicted,
     boost_bpm |-> p.stats.boost.bpm,
     avg_speed |-> p.stats.movement.avg_speed]

\* a variant of line 81 written next(..., default) with a record of zeros
extract_with_default(m) ==
    IF Mine(your_team(m)) = {}
    THEN [ok |-> TRUE,
          row |-> project(m, [name |-> PLAYER, stats |-> Stats(0, -10)])]
    ELSE [ok |-> TRUE, row |-> project(m, you(m))]

\* the row, or the StopIteration that next() raises on an exhausted generator
extract_player_stats(m) ==
    IF Mine(your_team(m)) = {}
    THEN [ok |-> FALSE, raised |-> "StopIteration"]
    ELSE [ok |-> TRUE, row |-> project(m, you(m))]

(***************************************************************************)
(* Optional values (Python's None against a value), responses and files.   *)
(***************************************************************************)
Nothing == <<>>

Some(x) == <<x>>

\* a response object; its body is Nothing when it does not decode as JSON
Response(s, b) == [status |-> s, body |-> b]

\* the None a function returns when it falls off its end
NoResponse == [status |-> 0, body |-> Nothing]

Statuses == {200, 404, 500}

\* r.raise_for_status() raises for 4xx and 5xx
raise_for_status(resp) == 400 <= resp.status /\ resp.status < 600

Absent == [state |-> "absent", data |-> Nothing]

\* a file whose write ended part way
Partial == [state |-> "partial", data |-> Nothing]

Written(text) == [state |-> "complete", data |-> Some(text)]

\* json.dumps(js): the text of the detail
dumps(m) == [json |-> m]

Columns ==
    <<"id", "date", "outcome", "shots", "goals", "saves", "assists",
      "demos", "boost_bpm", "avg_speed">>

csv_line(row) ==
    <<row.id, row.date, row.outcome, ToString(row.shots),
      ToString(row.goals), ToString(row.saves), ToString(row.assists),
      ToString(row.demos), ToString(row.boost_bpm),
      ToString(row.avg_speed)>>

\* pd.DataFrame(rows).to_csv(index=False): the header line, then the rows
to_csv(rs) == <<Columns>> \o [n \in 1..Len(rs) |-> csv_line(rs[n])]

(***************************************************************************)
(* What the remote can answer.                                             *)
(***************************************************************************)
ListUrl == "https://ballchasing.com/api/replays"

DetailUrl(rid) == "https://ballchasing.com/api/replays/" \o rid

Cursor == "https://ballchasing.com/api/replays?after=1"

\* a value of data.get("next"): the key absent or null, empty, or a link
Links == {None, "", Cursor}

Stubs == {[id |-> x] : x \in IDS}

\* the page bodies the listing endpoint can deliver next
PageBodies ==
    {[list |-> l, next |-> n] :
        l \in SeqsUpTo(Stubs, MaxIds - Len(ids)),
        n \in IF Len(pages) + 1 < MaxPages THEN Links ELSE Links \ {Cursor}}

\* one player a side
Solo(names, k) ==
    {t \in Teams(Players(names, GoalValues, {k}), 1) : Len(t.players) = 1}

\* the details the match endpoint serves for replay rid: one player a side,
\* a single goal in the game, the tracked name on at most one side
Details(rid) ==
    {m \in Matches({rid}, {"2024"}, Solo(Names, 1), Solo(Names, 3)) :
        /\ team_goals(m.blue) + team_goals(m.orange) = 1
        /\ m.blue.players[1].name = "bot" \/ m.orange.players[1].name = "bot"}

\* the remote answers the request it was sent: the detail of the replay the
\* URL names, or a page of the listing
Bodies ==
    IF \E x \in IDS : url = DetailUrl(x)
    THEN Details(CHOOSE x \in IDS : url = DetailUrl(x))
    ELSE PageBodies

Responses ==
    {Response(200, Some(b)) : b \in Bodies}
        \cup {Response(s, Nothing) : s \in Statuses}

(***************************************************************************)
(* get_with_retry                                                          *)
(***************************************************************************)
\* a variant of line 38 that compares against one attempt too many
last_attempt_late(a) == a = MAX_RETRY + 1

\* a variant of line 38 that never re-raises
last_attempt_never(a) == FALSE

\* line 38: the last attempt re-raises instead of sleeping
last_attempt(a) == a = MAX_RETRY


\* a variant of line 41 that doubles the delay with each attempt
backoff_doubling(a) == 2 ^ a

\* line 41: the delay slept after failed attempt a
backoff(a) == 2 * a

\* where control goes when get_with_retry returns to its caller
Resume == IF caller = "list_replays" THEN "list_resp" ELSE "fetch_resp"

\* a call get_with_retry(u, p) made by function f: the loop starts at
\* attempt 1, and a loop with nothing to iterate falls through to None
CallGet(f, u, p) ==
    /\ caller' = f
    /\ url' = u
    /\ params' = p
    /\ attempt' = 1
    /\ calls' = 0
    /\ transients' = 0
    /\ slept' = <<>>
    /\ r' = NoResponse
    /\ pc' = IF 1 <= MAX_RETRY THEN "get"
             ELSE IF f = "list_replays" THEN "list_resp" ELSE "fetch_resp"

\* the run ends with exception e
Raise(e) == pc' = "error" /\ err' = e

\* requests.get answered: the response goes to the caller whatever its status
GetReturns ==
    /\ pc = "get"
    /\ \E resp \in Responses : r' = resp
    /\ calls' = calls + 1
    /\ pc' = Resume
    /\ UNCHANGED <<TOKEN, GROUP, PLAYER, err, caller, url, params, attempt,
                   transients, slept, ids, pages, i, js, fetched, archived,
                   rows,
                   files, summary>>


\* a variant of lines 34-41 whose loop starts over when the attempts run out
GetTransient_restart ==
    /\ pc = "get"
    /\ IF last_attempt(attempt)
       THEN /\ attempt' = 1
            /\ calls' = 0
            /\ transients' = 0
            /\ slept' = <<>>
            /\ UNCHANGED <<pc, err, r>>
       ELSE /\ calls' = calls + 1
            /\ transients' = transients + 1
            /\ slept' = Append(slept, backoff(attempt))
            /\ err' = err
            /\ IF attempt + 1 <= MAX_RETRY
               THEN attempt' = attempt + 1 /\ pc' = "get" /\ r' = r
               ELSE attempt' = attempt /\ pc' = Resume /\ r' = NoResponse
    /\ UNCHANGED <<TOKEN, GROUP, PLAYER, caller, url, params, ids, pages, i,
                   js, fetched, archived, rows, files, summary>>

\* requests.get raised ReadTimeout or ConnectionError
GetTransient ==
    /\ pc = "get"
    /\ calls' = calls + 1
    /\ transients' = transients + 1
    /\ IF last_attempt(attempt)
       THEN /\ Raise("ConnectionError")
            /\ UNCHANGED <<attempt, slept, r>>
       ELSE /\ slept' = Append(slept, backoff(attempt))
            /\ err' = err
            /\ IF attempt + 1 <= MAX_RETRY
               THEN attempt' = attempt + 1 /\ pc' = "get" /\ r' = r
               ELSE attempt' = attempt /\ pc' = Resume /\ r' = NoResponse
    /\ UNCHANGED <<TOKEN, GROUP, PLAYER, caller, url, params, ids, pages, i,
                   js, fetched, archived, rows, files, summary>>

\* requests.get raised an exception the except clause does not name
GetOtherError ==
    /\ pc = "get"
    /\ calls' = calls + 1
    /\ Raise("RequestException")
    /\ UNCHANGED <<TOKEN, GROUP, PLAYER, caller, url, params, attempt,
                   transients, slept, r, ids, pages, i, js, fetched, archived,
                   rows,
                   files, summary>>

\* the locals of a finished get_with_retry call are gone
DropCall ==
    /\ attempt' = 1
    /\ calls' = 0
    /\ transients' = 0
    /\ slept' = <<>>
    /\ r' = NoResponse

(***************************************************************************)
(* Start-up: the configuration check, then main calls list_replays(GROUP). *)
(***************************************************************************)
\* a variant of line 24 written with any() in place of all()
all_set_any == \E v \in {TOKEN, GROUP, PLAYER} : v # None /\ v # ""

\* line 24: all([TOKEN, GROUP, PLAYER]); None and "" are both falsy
all_set == \A v \in {TOKEN, GROUP, PLAYER} : v # None /\ v # ""

Startup ==
    /\ pc = "config"
    /\ IF ~all_set
       THEN /\ Raise("RuntimeError")
            /\ UNCHANGED <<caller, url, params, attempt, calls, transients,
                           slept, r>>
       ELSE /\ CallGet("list_replays", ListUrl,
                       Some([group |-> GROUP, count |-> 200]))
            /\ err' = err
    /\ UNCHANGED <<TOKEN, GROUP, PLAYER, ids, pages, i, js, fetched, archived,
                   rows,
                   files, summary>>

(***************************************************************************)
(* list_replays, from the response of a page to the next request; when the *)
(* last page has come, main starts its loop over the identifiers.          *)
(***************************************************************************)
\* a variant of line 54 that takes a page's stubs last to first
page_ids_reversed(data) ==
    [n \in 1..Len(data.list) |-> data.list[Len(data.list) + 1 - n].id]

\* line 54: the identifiers of a page's stubs, in the page's order
page_ids(data) == [n \in 1..Len(data.list) |-> data.list[n].id]

\* a variant of line 57 written "if next_url is None"
follows_not_none(next_url) == next_url # None

\* line 57: "if not next_url" stops on None and on the empty string
follows(next_url) == next_url # None /\ next_url # ""

\* a variant of lines 51 and 67 without the call of r.raise_for_status()
Refused_unchecked ==
    IF r = NoResponse THEN "AttributeError"
    ELSE IF r.body = Nothing THEN "JSONDecodeError"
    ELSE None

\* what a caller does with what get_with_retry gave it, before it reads the
\* body: None has no raise_for_status, an error status raises, and a body
\* that is not JSON makes r.json() raise
Refused ==
    IF r = NoResponse THEN "AttributeError"
    ELSE IF raise_for_status(r) THEN "HTTPError"
    ELSE IF r.body = Nothing THEN "JSONDecodeError"
    ELSE None

\* main, lines 102-104: fetch_replay for the replay at position n of the
\* identifiers l, or on to the summary when the loop is over
FetchOrFinish(l, n) ==
    IF n <= Len(l)
    THEN CallGet("fetch_replay", DetailUrl(l[n]), Nothing)
    ELSE /\ pc' = "summary"
         /\ DropCall
         /\ UNCHANGED <<caller, url, params>>


\* a variant of lines 50-51 that, when a page is refused, returns the
\* identifiers collected so far instead of raising
ListPage_partial ==
    /\ pc = "list_resp"
    /\ IF Refused # None
       THEN /\ i' = 1
            /\ err' = err
            /\ FetchOrFinish(ids, 1)
            /\ UNCHANGED <<ids, pages>>
       ELSE LET data == r.body[1]
                all  == ids \o page_ids(data)
            IN  /\ ids' = all
                /\ pages' = Append(pages, data)
                /\ err' = err
                /\ IF follows(data.next)
                   THEN /\ CallGet("list_replays", data.next, Nothing)
                        /\ i' = i
                   ELSE /\ i' = 1
                        /\ FetchOrFinish(all, 1)
    /\ UNCHANGED <<TOKEN, GROUP, PLAYER, js, fetched, archived, rows, files,
                   summary>>

ListPage ==
    /\ pc = "list_resp"
    /\ IF Refused # None
       THEN /\ Raise(Refused)
            /\ UNCHANGED <<caller, url, params, attempt, calls, transients,
                           slept, r, ids, pages, i>>
       ELSE LET data == r.body[1]
                all  == ids \o page_ids(data)
            IN  /\ ids' = all
                /\ pages' = Append(pages, data)
                /\ err' = err
                /\ IF follows(data.next)
                   THEN /\ CallGet("list_replays", data.next, Nothing)
                        /\ i' = i
                   ELSE /\ i' = 1
                        /\ FetchOrFinish(all, 1)
    /\ UNCHANGED <<TOKEN, GROUP, PLAYER, js, fetched, archived, rows, files,
                   summary>>

(***************************************************************************)
(* main: fetch_replay's return, the archive write, the extraction, and the *)
(* summary.                                                                *)
(***************************************************************************)

\* a variant of lines 104-106 that extracts the detail without archiving it
FetchReturn_unarchived ==
    /\ pc = "fetch_resp"
    /\ IF Refused # None
       THEN /\ Raise(Refused)
            /\ UNCHANGED <<attempt, calls, transients, slept, r, js, fetched>>
       ELSE /\ js' = Some(r.body[1])
            /\ fetched' = Append(fetched, r.body[1])
            /\ pc' = "extract"
            /\ err' = err
            /\ DropCall
    /\ UNCHANGED <<TOKEN, GROUP, PLAYER, caller, url, params, ids, pages, i,
                   archived, rows, files, summary>>

FetchReturn ==
    /\ pc = "fetch_resp"
    /\ IF Refused # None
       THEN /\ Raise(Refused)
            /\ UNCHANGED <<attempt, calls, transients, slept, r, js, fetched>>
       ELSE /\ js' = Some(r.body[1])
            /\ fetched' = Append(fetched, r.body[1])
            /\ pc' = "archive"
            /\ err' = err
            /\ DropCall
    /\ UNCHANGED <<TOKEN, GROUP, PLAYER, caller, url, params, ids, pages, i,
                   archived,
                   rows, files, summary>>

\* line 105: (OUT_DIR / f"{rid}.json").write_text(json.dumps(js)); a write
\* that fails leaves the file as it was or cut short
Archive ==
    /\ pc = "archive"
    /\ \/ /\ files' = [files EXCEPT ![ids[i]] = Written(dumps(js[1]))]
          /\ archived' = Append(archived, ids[i])
          /\ pc' = "extract"
          /\ err' = err
       \/ /\ \E f \in {files[ids[i]], Partial} :
                files' = [files EXCEPT ![ids[i]] = f]
          /\ archived' = archived
          /\ Raise("OSError")
    /\ UNCHANGED <<TOKEN, GROUP, PLAYER, caller, url, params, attempt, calls,
                   transients, slept, r, ids, pages, i, js, fetched, rows,
                   summary>>

\* a variant of line 106 written rows.insert(0, ...)
add_row_front(rs, row) == <<row>> \o rs

\* line 106: rows.append(...)
add_row(rs, row) == Append(rs, row)

\* a variant of line 106 that catches the failure of an extraction and goes
\* on to the next replay
Extract_skip ==
    /\ pc = "extract"
    /\ LET res == extract_player_stats(js[1])
       IN  /\ rows' = IF res.ok THEN add_row(rows, res.row) ELSE rows
           /\ i' = i + 1
           /\ err' = err
           /\ FetchOrFinish(ids, i + 1)
    /\ UNCHANGED <<TOKEN, GROUP, PLAYER, ids, pages, js, fetched, archived,
                   files,
                   summary>>


\* a variant of the loop of lines 102-106 that does not step to the next
\* identifier
Extract_again ==
    /\ pc = "extract"
    /\ LET res == extract_player_stats(js[1])
       IN  IF res.ok
           THEN /\ rows' = add_row(rows, res.row)
                /\ i' = i
                /\ err' = err
                /\ FetchOrFinish(ids, i)
           ELSE /\ Raise(res.raised)
                /\ UNCHANGED <<caller, url, params, attempt, calls,
                               transients, slept, r, i, rows>>
    /\ UNCHANGED <<TOKEN, GROUP, PLAYER, ids, pages, js, fetched, archived,
                   files, summary>>

\* line 106, and the loop's step to the next identifier
Extract ==
    /\ pc = "extract"
    /\ LET res == extract_player_stats(js[1])
       IN  IF res.ok
           THEN /\ rows' = add_row(rows, res.row)
                /\ i' = i + 1
                /\ err' = err
                /\ FetchOrFinish(ids, i + 1)
           ELSE /\ Raise(res.raised)
                /\ UNCHANGED <<caller, url, params, attempt, calls,
                               transients, slept, r, i, rows>>
    /\ UNCHANGED <<TOKEN, GROUP, PLAYER, ids, pages, js, fetched, archived,
                   files,
                   summary>>

\* a variant of line 108 that writes the table whatever the rows
has_rows_always(rs) == TRUE

\* line 108: an empty list of rows is falsy
has_rows(rs) == rs # <<>>

\* lines 108-112: the table is written only when there are rows
Summary ==
    /\ pc = "summary"
    /\ IF has_rows(rows)
       THEN \/ /\ summary' = Written(to_csv(rows))
               /\ pc' = "done"
               /\ err' = err
            \/ /\ summary' \in {summary, Partial}
               /\ Raise("OSError")
       ELSE /\ pc' = "done"
            /\ UNCHANGED <<summary, err>>
    /\ UNCHANGED <<TOKEN, GROUP, PLAYER, caller, url, params, attempt, calls,
                   transients, slept, r, ids, pages, i, js, fetched, archived,
                   rows,
                   files>>

(***************************************************************************)
(* One run of the script.  Files of an earlier run may be on disk.         *)
(***************************************************************************)
\* what an earlier run left: the detail of a replay of another day
StaleDetail(rid) ==
    [id |-> rid, created |-> "2023",
     blue |-> [players |-> <<[name |-> "me", stats |-> Stats(1, 1)]>>],
     orange |-> [players |-> <<[name |-> "bot", stats |-> Stats(0, 3)]>>]]

StaleRow(rid) ==
    [id |-> rid, date |-> "2023", outcome |-> "win", shots |-> 11,
     goals |-> 1, saves |-> 21, assists |-> 31, demos |-> 41,
     boost_bpm |-> 51, avg_speed |-> 61]

StaleSummary == Written(to_csv(<<StaleRow("a"), StaleRow("b")>>))

Disks ==
    {[f |-> [x \in IDS |-> Absent], s |-> Absent],
     [f |-> [x \in IDS |-> Written(dumps(StaleDetail(x)))],
      s |-> StaleSummary]}

Init ==
    /\ TOKEN \in ConfigValues("token")
    /\ GROUP \in ConfigValues("group")
    /\ PLAYER \in ConfigValues("me")
    /\ pc = "config"
    /\ err = None
    /\ caller = None
    /\ url = None
    /\ params = Nothing
    /\ attempt = 1
    /\ calls = 0
    /\ transients = 0
    /\ slept = <<>>
    /\ r = NoResponse
    /\ ids = <<>>
    /\ pages = <<>>
    /\ i = 0
    /\ js = Nothing
    /\ fetched = <<>>
    /\ archived = <<>>
    /\ rows = <<>>
    /\ \E d \in Disks : files = d.f /\ summary = d.s

Next ==
    \/ Startup
    \/ GetReturns
    \/ GetTransient
    \/ GetOtherError
    \/ ListPage
    \/ FetchReturn
    \/ Archive
    \/ Extract
    \/ Summary

Spec == Init /\ [][Next]_vars

\* a run whose every network attempt and file write comes to an end: the
\* single thread of the script always takes its next step
FairSpec == Init /\ [][Next]_vars /\ WF_vars(Next)

(***************************************************************************)
(* extract_player_stats on its own: main has archived the detail of one    *)
(* replay, any detail with up to MaxTeam players a side, and is about to   *)
(* extract it.                                                             *)
(***************************************************************************)
AnyMatch ==
    Matches(IDS, {"2024"},
            Teams(Players(Names, GoalValues, BlueProfiles), MaxTeam),
            Teams(Players(Names, GoalValues, OrangeProfiles), MaxTeam))

InitExtract ==
    \E m \in AnyMatch :
        /\ TOKEN = "token"
        /\ GROUP = "group"
        /\ PLAYER = "me"
        /\ pc = "extract"
        /\ err = None
        /\ caller = "fetch_replay"
        /\ url = DetailUrl(m.id)
        /\ params = Nothing
        /\ attempt = 1
        /\ calls = 0
        /\ transients = 0
        /\ slept = <<>>
        /\ r = NoResponse
        /\ ids = <<m.id>>
        /\ pages = <<[list |-> <<[id |-> m.id]>>, next |-> None]>>
        /\ i = 1
        /\ js = Some(m)
        /\ fetched = <<m>>
        /\ archived = <<m.id>>
        /\ rows = <<>>
        /\ files = [x \in IDS |-> IF x = m.id THEN Written(dumps(m))
                                  ELSE Absent]
        /\ summary = Absent

SpecExtract == InitExtract /\ [][Extract]_vars

(***************************************************************************)
(* Properties of get_with_retry and list_replays.                          *)
(***************************************************************************)
\* get_with_retry has returned to its caller, which has not yet looked at r
Returned == pc \in {"list_resp", "fetch_resp"}

\* C1: a call that meets K < MAX_RETRY transient errors and then an answer
\* returns that answer after exactly K + 1 attempts; a call that meets
\* MAX_RETRY transient errors in a row raises after exactly MAX_RETRY
\* attempts, and no call ever makes a further attempt.
C1_RetryBound ==
    /\ calls <= MAX_RETRY
    /\ pc = "get" => transients < MAX_RETRY /\ calls = transients
    /\ Returned =>
          /\ r # NoResponse
          /\ transients < MAX_RETRY
          /\ calls = transients + 1
    /\ pc = "error" /\ err = "ConnectionError" =>
          /\ transients = MAX_RETRY
          /\ calls = MAX_RETRY

\* the last attempt allowed succeeds after MAX_RETRY - 1 transient errors
C1_Witness ==
    /\ Returned
    /\ transients = MAX_RETRY - 1
    /\ calls = MAX_RETRY
    /\ r.status = 200

\* a page carries a next-page link
HasLink(page) == page.next # None /\ page.next # ""

\* list_replays has returned its list to main
Listed == i >= 1

\* C2: every page but the last one received carried a next-page link, the
\* request in flight while enumerating is for the link of the page just
\* received, enumeration returns on the first page without a link, and no
\* listing request is made after that.
C2_Pagination ==
    /\ \A k \in 1..(Len(pages) - 1) : HasLink(pages[k])
    /\ ~Listed => \A k \in 1..Len(pages) : HasLink(pages[k])
    /\ ~Listed /\ pc \in {"get", "list_resp"} =>
          /\ caller = "list_replays"
          /\ url = IF pages = <<>> THEN ListUrl ELSE pages[Len(pages)].next
    /\ Listed =>
          /\ pages # <<>>
          /\ ~HasLink(pages[Len(pages)])
          /\ pc \in {"get", "fetch_resp"} => caller = "fetch_replay"
          /\ pc # "list_resp"

\* enumeration has followed one link and stopped on the second page
C2_Witness ==
    /\ Listed
    /\ Len(pages) = 2
    /\ HasLink(pages[1])
    /\ pages[2].next = ""

\* the identifiers of the stubs of the pages delivered, page after page
Delivered ==
    ConcatAll([k \in 1..Len(pages) |->
                 [n \in 1..Len(pages[k].list) |-> pages[k].list[n].id]])

\* C3: the identifiers list_replays holds, and returns, are those of every
\* stub delivered, in page order and in the order within each page, with
\* nothing dropped, reordered or deduplicated.
C3_Enumeration ==
    /\ ids = Delivered
    /\ Len(ids) = SumSeq([k \in 1..Len(pages) |-> Len(pages[k].list)])

\* two pages of one stub each, in an order a sort would change
C3_Witness ==
    /\ Listed
    /\ Len(pages) = 2
    /\ Len(pages[1].list) = 1
    /\ ids = <<"b", "a">>

(***************************************************************************)
(* Properties of extract_player_stats.                                     *)
(***************************************************************************)
NamesOf(team) == {team.players[n].name : n \in 1..Len(team.players)}

RECURSIVE GoalsOfFirst(_, _)
GoalsOfFirst(team, n) ==
    IF n = 0 THEN 0
    ELSE GoalsOfFirst(team, n - 1) + team.players[n].stats.core.goals

GoalTotal(team) == GoalsOfFirst(team, Len(team.players))

RowStats(row) ==
    <<row.shots, row.goals, row.saves, row.assists, row.demos,
      row.boost_bpm, row.avg_speed>>

RecordStats(p) ==
    <<p.stats.core.shots, p.stats.core.goals, p.stats.core.saves,
      p.stats.core.assists, p.stats.demo.inflicted, p.stats.boost.bpm,
      p.stats.movement.avg_speed>>

\* the extraction of the one replay has acted
Extracted == pc \in {"summary", "error"}

\* C4: when extraction succeeds the outcome is "win" exactly when the goals
\* of the tracked player's team (blue when the name is on blue, orange
\* otherwise) sum to strictly more than the other team's, and "loss" in
\* every other case, equal totals included.
C4_Outcome ==
    pc = "summary" =>
        LET m      == js[1]
            onBlue == PLAYER \in NamesOf(m.blue)
            mine   == IF onBlue THEN m.blue ELSE m.orange
            theirs == IF onBlue THEN m.orange ELSE m.blue
        IN  /\ Len(rows) = 1
            /\ rows[1].outcome \in {"win", "loss"}
            /\ rows[1].outcome = "win" <=> GoalTotal(mine) > GoalTotal(theirs)

\* two players a side, equal totals that are not zero, and a loss
C4_Witness ==
    /\ pc = "summary"
    /\ Len(js[1].blue.players) = 2
    /\ Len(js[1].orange.players) = 2
    /\ GoalTotal(js[1].blue) = GoalTotal(js[1].orange)
    /\ GoalTotal(js[1].blue) >= 1
    /\ rows[1].outcome = "loss"

\* C5: when the tracked name is on orange only, extraction succeeds, the
\* row's stats are those of the first orange player of that name and of no
\* blue player, and the outcome counts orange as the tracked player's team.
C5_TeamAttribution ==
    LET m == js[1]
    IN  Extracted /\ PLAYER \notin NamesOf(m.blue)
                  /\ PLAYER \in NamesOf(m.orange) =>
            /\ pc = "summary"
            /\ Len(rows) = 1
            /\ \E n \in 1..Len(m.orange.players) :
                  /\ m.orange.players[n].name = PLAYER
                  /\ \A k \in 1..(n - 1) : m.orange.players[k].name # PLAYER
                  /\ RowStats(rows[1]) = RecordStats(m.orange.players[n])
            /\ \A n \in 1..Len(m.blue.players) :
                  RowStats(rows[1]) # RecordStats(m.blue.players[n])
            /\ rows[1].outcome = "win" <=>
                  GoalTotal(m.orange) > GoalTotal(m.blue)

\* the tracked player is the second of two orange players, against two blue
C5_Witness ==
    /\ pc = "summary"
    /\ PLAYER \notin NamesOf(js[1].blue)
    /\ Len(js[1].blue.players) = 2
    /\ Len(js[1].orange.players) = 2
    /\ js[1].orange.players[1].name # PLAYER
    /\ js[1].orange.players[2].name = PLAYER
    /\ rows[1].goals = 1

\* C6: when the tracked name is on neither team, extraction ends in an
\* error and no row is produced.
C6_MissingPlayer ==
    LET m == js[1]
    IN  Extracted /\ PLAYER \notin NamesOf(m.blue) \cup NamesOf(m.orange) =>
            /\ pc = "error"
            /\ err = "StopIteration"
            /\ rows = <<>>

\* extraction has failed on a replay with players on both sides, none of
\* them the tracked one
C6_Witness ==
    /\ pc = "error"
    /\ err = "StopIteration"
    /\ js[1].blue.players # <<>>
    /\ js[1].orange.players # <<>>
    /\ PLAYER \notin NamesOf(js[1].blue) \cup NamesOf(js[1].orange)

(***************************************************************************)
(* Properties of main.                                                     *)
(***************************************************************************)
\* the table of this run: the header, then the extraction of each detail
\* fetched, in the order of the fetches
RunTable ==
    <<Columns>> \o
        [k \in 1..Len(fetched) |->
            csv_line(extract_player_stats(fetched[k]).row)]

\* C7 as stated: after a run that ends without error the summary file is
\* the header plus one row per enumerated replay, whatever was enumerated.
C7_Rebuilt ==
    pc = "done" =>
        /\ summary.state = "complete"
        /\ Len(summary.data[1]) = Len(ids) + 1
        /\ summary.data[1] = RunTable

\* C7, amended: a run that ends without error and enumerated at least one
\* replay leaves a summary file that is the header plus one row per
\* enumerated replay and nothing of an earlier run; a run that enumerated
\* no replay leaves the summary file as it found it.
C7_RebuiltUnlessEmpty ==
    [][pc = "summary" /\ pc' = "done" =>
          IF ids # <<>>
          THEN /\ summary' = Written(RunTable)
               /\ Len(RunTable) = Len(ids) + 1
          ELSE summary' = summary]_vars

\* a run over two replays has replaced the table of an earlier run, whose
\* archive of another replay is still on disk
C7_Witness ==
    /\ pc = "done"
    /\ Len(ids) = 2
    /\ summary = Written(RunTable)
    /\ \E x \in IDS : files[x] = Written(dumps(StaleDetail(x)))

\* the last position, up to n, at which identifier x was enumerated
LastOf(x, n) == CHOOSE k \in 1..n : ids[k] = x /\ \A j \in (k + 1)..n : ids[j] # x

\* C8: after a run that ends without error there is one row per enumerated
\* replay, the k-th row is the extraction of the detail fetched for the
\* k-th identifier, the table holds the rows in that order, and the archive
\* file of every enumerated identifier holds the detail fetched for it (the
\* detail of its last fetch when it was enumerated twice); no other archive
\* file is touched.
C8_Correspondence ==
    pc = "done" =>
        /\ Len(rows) = Len(ids)
        /\ Len(fetched) = Len(ids)
        /\ \A k \in 1..Len(ids) :
              /\ fetched[k].id = ids[k]
              /\ rows[k] = extract_player_stats(fetched[k]).row
        /\ ids # <<>> =>
              summary = Written(<<Columns>> \o
                                  [k \in 1..Len(ids) |-> csv_line(rows[k])])
        /\ \A x \in IDS :
              IF \E k \in 1..Len(ids) : ids[k] = x
              THEN files[x] = Written(dumps(fetched[LastOf(x, Len(ids))]))
              ELSE files[x] \in {Absent, Written(dumps(StaleDetail(x)))}

\* two replays, the tracked player on blue and winning the first, on orange
\* and losing the second
C8_Witness ==
    /\ pc = "done"
    /\ ids = <<"a", "b">>
    /\ fetched[1].blue.players[1].name = PLAYER
    /\ fetched[2].orange.players[1].name = PLAYER
    /\ rows[1].outcome = "win"
    /\ rows[2].outcome = "loss"
    /\ summary.data[1][2][3] = "win"
    /\ summary.data[1][3][3] = "loss"

\* the run has failed before the summary step
FailedEarly == pc = "error" /\ ~(Listed /\ i > Len(ids))

\* the replays whose archive write has completed when the run fails
ArchivedAtFailure ==
    IF err = "StopIteration" THEN i ELSE IF i >= 1 THEN i - 1 ELSE 0

\* C9: the summary file changes only in the summary step, when there is a
\* row for every enumerated replay; a run that fails in the enumeration, a
\* fetch, an archive write or an extraction leaves the summary file as an
\* earlier run left it, and every archive file written before the failure,
\* that of the replay whose extraction failed included, holds what was
\* written (a file whose own write is the failure excepted).
C9_NoPartialSummary ==
    /\ [][summary' # summary =>
            /\ pc = "summary"
            /\ Listed
            /\ rows # <<>>
            /\ Len(rows) = Len(ids)]_vars
    /\ [](FailedEarly =>
            /\ summary \in {Absent, StaleSummary}
            /\ \A k \in 1..ArchivedAtFailure :
                  \/ err = "OSError" /\ ids[k] = ids[i]
                  \/ files[ids[k]] =
                       Written(dumps(fetched[LastOf(ids[k], ArchivedAtFailure)])))

\* the second of two replays has no tracked player: the run has failed with
\* both archive files written and the summary file still absent
C9_Witness ==
    /\ pc = "error"
    /\ err = "StopIteration"
    /\ ids = <<"a", "b">>
    /\ i = 2
    /\ Len(rows) = 1
    /\ files["a"] = Written(dumps(fetched[1]))
    /\ files["b"] = Written(dumps(fetched[2]))
    /\ summary = Absent

\* C10: a response with a 4xx or 5xx status is handed to the caller by the
\* attempt that received it, with no delay and no further attempt; the
\* caller raises at once, nothing else having changed, and a run that has
\* raised makes no further step, so no further request.
C10_StatusNotRetried ==
    /\ [][pc = "get" /\ raise_for_status(r') =>
            /\ pc' = Resume
            /\ calls' = calls + 1
            /\ UNCHANGED <<attempt, slept, transients>>]_vars
    /\ [][Returned /\ raise_for_status(r) =>
            /\ pc' = "error"
            /\ err' = "HTTPError"
            /\ UNCHANGED <<calls, slept, ids, pages, fetched, rows, files,
                           summary>>]_vars
    /\ [](pc = "error" => ~ENABLED Next)

\* the fetch of the second replay was answered 500 on its first attempt and
\* the run has ended there
C10_Witness ==
    /\ pc = "error"
    /\ err = "HTTPError"
    /\ caller = "fetch_replay"
    /\ r.status = 500
    /\ calls = 1
    /\ slept = <<>>
    /\ Len(rows) = 1

(***************************************************************************)
(* Failures of the enumeration and of the configuration.                   *)
(***************************************************************************)
\* the run has ended inside list_replays
ListingFailed == pc = "error" /\ caller = "list_replays" /\ ~Listed

\* the files are as an earlier run left them
Untouched == [f |-> files, s |-> summary] \in Disks

\* C11: a listing request that is answered with an error status, or that
\* meets its last transient error, ends the run with an exception, on the
\* first page or on a later one; a run that ended inside list_replays has
\* handed no identifier to main, has made no detail request, has written no
\* archive file and no summary, and makes no further step.
C11_AllOrNothing ==
    /\ [][pc = "list_resp" /\ raise_for_status(r) =>
            /\ pc' = "error"
            /\ err' = "HTTPError"
            /\ ~Listed'
            /\ UNCHANGED <<ids, fetched, archived, files, summary>>]_vars
    /\ [][pc = "get" /\ caller = "list_replays" /\ transients' = MAX_RETRY =>
            /\ pc' = "error"
            /\ err' = "ConnectionError"
            /\ ~Listed']_vars
    /\ [](~Listed => caller # "fetch_replay" /\ fetched = <<>>)
    /\ [](ListingFailed =>
            /\ i = 0
            /\ js = Nothing
            /\ fetched = <<>>
            /\ archived = <<>>
            /\ rows = <<>>
            /\ Untouched
            /\ ~ENABLED Next)

\* the second page was answered with an error status after the first page
\* had delivered identifiers, over the files of an earlier run
C11_Witness ==
    /\ ListingFailed
    /\ err = "HTTPError"
    /\ Len(pages) = 1
    /\ ids # <<>>
    /\ summary = StaleSummary

\* an environment variable that is not set, or set to the empty string
Unset(v) == v = None \/ v = ""

\* one of the three settings is missing
Misconfigured == Unset(TOKEN) \/ Unset(GROUP) \/ Unset(PLAYER)

\* C12: when the credential, the group or the player name is unset or
\* empty, the only step of the run is the start-up check raising
\* RuntimeError: get_with_retry is never called, no request is made, no
\* page or detail is received, and the archive files and the summary stay
\* as an earlier run left them.
C12_ConfigFirst ==
    /\ [][Misconfigured /\ pc = "config" =>
            pc' = "error" /\ err' = "RuntimeError"]_vars
    /\ [](Misconfigured =>
            /\ pc \in {"config", "error"}
            /\ pc = "error" => err = "RuntimeError" /\ ~ENABLED Next
            /\ caller = None
            /\ url = None
            /\ calls = 0
            /\ pages = <<>>
            /\ ids = <<>>
            /\ fetched = <<>>
            /\ archived = <<>>
            /\ rows = <<>>
            /\ Untouched)

\* only the group is missing, set to the empty string, and the start-up
\* check has raised over the files of an earlier run
C12_Witness ==
    /\ pc = "error"
    /\ err = "RuntimeError"
    /\ TOKEN = "token"
    /\ GROUP = ""
    /\ PLAYER = "me"
    /\ summary = StaleSummary

Progress == <<Len(fetched), Len(archived), Len(rows)>>

\* C14: no detail is requested before list_replays has returned, and the
\* list does not change afterwards; the replay at position i is fetched
\* when exactly i - 1 replays have been fetched, archived and extracted,
\* archived when it has been fetched, extracted when it has been archived
\* with the detail just fetched; the summary step comes when every
\* enumerated replay has been extracted, and only it changes the summary.
C14_Sequential ==
    /\ [](~Listed => Progress = <<0, 0, 0>> /\ caller # "fetch_replay")
    /\ [][Listed => ids' = ids]_vars
    /\ [](Listed /\ pc \in {"get", "fetch_resp"} =>
            /\ i \in 1..Len(ids)
            /\ caller = "fetch_replay"
            /\ url = DetailUrl(ids[i])
            /\ Progress = <<i - 1, i - 1, i - 1>>)
    /\ [](pc = "archive" => Progress = <<i, i - 1, i - 1>>)
    /\ [](pc = "extract" =>
            /\ Progress = <<i, i, i - 1>>
            /\ files[ids[i]] = Written(dumps(js[1])))
    /\ [](pc \in {"summary", "done"} =>
            /\ i = Len(ids) + 1
            /\ Progress = <<Len(ids), Len(ids), Len(ids)>>)
    /\ [](\A k \in 1..Len(fetched) : fetched[k].id = ids[k])
    /\ [](\A k \in 1..Len(archived) : archived[k] = ids[k])
    /\ [][summary' # summary => pc = "summary" /\ pc' \in {"done", "error"}]_vars

\* the second replay has been fetched, and is about to be archived, after
\* the first was fetched, archived and extracted
C14_Witness ==
    /\ pc = "archive"
    /\ i = 2
    /\ ids = <<"a", "b">>
    /\ Progress = <<2, 1, 1>>
    /\ files["a"] = Written(dumps(fetched[1]))
    /\ files["b"] # Written(dumps(fetched[2]))

(***************************************************************************)
(* How often a replay is fetched and archived.                             *)
(***************************************************************************)
\* how many times x occurs in the sequence s
Times(s, x) == Cardinality({k \in 1..Len(s) : s[k] = x})

\* the identifiers of the details fetched, in order
FetchedIds == [k \in 1..Len(fetched) |-> fetched[k].id]

\* C15 as stated: whatever the listing delivers, no identifier has more
\* than one detail fetched or more than one archive write.
C15_OncePerIdentifier ==
    \A x \in IDS : Times(FetchedIds, x) <= 1 /\ Times(archived, x) <= 1

\* C15, amended: every fetch and every archive write is for the position
\* the loop is at, and the loop is at each position once, so an identifier
\* is fetched and archived at most as many times as the listing delivered
\* it, exactly that many times in a run that ends without error, and at
\* most once when the listing delivered it once.
C15_OncePerPosition ==
    /\ [][fetched' # fetched =>
            /\ pc = "fetch_resp"
            /\ Len(fetched') = i
            /\ fetched' = Append(fetched, r.body[1])
            /\ r.body[1].id = ids[i]]_vars
    /\ [][files' # files \/ archived' # archived =>
            /\ pc = "archive"
            /\ Len(archived) = i - 1
            /\ \A x \in IDS \ {ids[i]} : files'[x] = files[x]]_vars
    /\ [](\A x \in IDS :
            /\ Times(FetchedIds, x) <= Times(ids, x)
            /\ Times(archived, x) <= Times(ids, x)
            /\ pc = "done" =>
                  /\ Times(FetchedIds, x) = Times(ids, x)
                  /\ Times(archived, x) = Times(ids, x))

\* the listing delivered the same identifier twice: two different details
\* were fetched for it, and the archive file holds the second
C15_Witness ==
    /\ pc = "done"
    /\ ids = <<"a", "a">>
    /\ archived = <<"a", "a">>
    /\ fetched[1] # fetched[2]
    /\ files["a"] = Written(dumps(fetched[2]))

(***************************************************************************)
(* The delays of get_with_retry.                                           *)
(***************************************************************************)
\* C16: the n-th delay a call sleeps is 2 * n, so the delays grow strictly;
\* a call has slept once per transient failure while it is to make another
\* attempt or has returned, none before its first attempt, none for the
\* attempt that succeeds and none after its last failed attempt, so a call
\* that raises after MAX_RETRY failures has slept 2, 4, 6: 12 in total.
C16_LinearBackoff ==
    /\ [](\A n \in 1..Len(slept) : slept[n] = 2 * n)
    /\ [](\A n \in 1..(Len(slept) - 1) : slept[n] < slept[n + 1])
    /\ [](Len(slept) < MAX_RETRY)
    /\ [](pc = "get" /\ calls = 0 => slept = <<>>)
    /\ [](pc = "get" \/ Returned => Len(slept) = transients)
    /\ [](pc = "error" /\ err = "ConnectionError" =>
            /\ transients = MAX_RETRY
            /\ Len(slept) = MAX_RETRY - 1
            /\ SumSeq(slept) = 12)
    /\ [][pc = "get" /\ pc' = Resume => slept' = slept]_vars
    /\ [][slept' # slept /\ slept' # <<>> =>
            /\ pc = "get"
            /\ pc' = "get"
            /\ transients' = transients + 1
            /\ attempt' = attempt + 1
            /\ slept' = Append(slept, 2 * attempt)]_vars

\* a call has met MAX_RETRY transient failures and raised, having slept
\* three times
C16_Witness ==
    /\ pc = "error"
    /\ err = "ConnectionError"
    /\ slept = <<2, 4, 6>>
    /\ calls = MAX_RETRY

(***************************************************************************)
(* Termination.                                                            *)
(***************************************************************************)
\* the run has ended, normally or with an exception
Finished == pc \in {"done", "error"}

\* C17: when the remote stops supplying next-page links and every attempt
\* and every write comes to an end, the run ends, after the summary step
\* or with an exception, and takes no step after that; list_replays
\* returns exactly on receiving a page without a link, so it has not
\* returned for as long as every page received carried one.
C17_Terminates ==
    /\ <>Finished
    /\ [](Finished => ~ENABLED Next)
    /\ [][~Listed /\ pages' # pages =>
            Listed' = ~HasLink(pages'[Len(pages')])]_vars
    /\ []((\A k \in 1..Len(pages) : HasLink(pages[k])) => ~Listed)

\* a run that followed a link to a second page, fetched two replays and
\* ended after the summary step
C17_Witness ==
    /\ pc = "done"
    /\ Len(pages) = 2
    /\ HasLink(pages[1])
    /\ Len(rows) = 2
    /\ summary.state = "complete"

(***************************************************************************)
(* A name on both teams, and the exits of get_with_retry.                  *)
(***************************************************************************)
\* C18: when the tracked name is in the blue list and in the orange list,
\* extraction succeeds, the row's stats are those of the first blue player
\* of that name and of no orange player, and the outcome is "win" exactly
\* when blue's goals are strictly more than orange's.
C18_BluePrecedence ==
    LET m == js[1]
    IN  Extracted /\ PLAYER \in NamesOf(m.blue)
                  /\ PLAYER \in NamesOf(m.orange) =>
            /\ pc = "summary"
            /\ err = None
            /\ Len(rows) = 1
            /\ \E n \in 1..Len(m.blue.players) :
                  /\ m.blue.players[n].name = PLAYER
                  /\ \A k \in 1..(n - 1) : m.blue.players[k].name # PLAYER
                  /\ RowStats(rows[1]) = RecordStats(m.blue.players[n])
            /\ \A n \in 1..Len(m.orange.players) :
                  RowStats(rows[1]) # RecordStats(m.orange.players[n])
            /\ rows[1].outcome = "win" <=>
                  GoalTotal(m.blue) > GoalTotal(m.orange)

\* two blue players of the tracked name with different stats, the name on
\* orange too, and orange ahead: the row is the first blue player's, a loss
C18_Witness ==
    /\ pc = "summary"
    /\ Len(js[1].blue.players) = 2
    /\ js[1].blue.players[1].name = PLAYER
    /\ js[1].blue.players[2].name = PLAYER
    /\ RecordStats(js[1].blue.players[1]) # RecordStats(js[1].blue.players[2])
    /\ PLAYER \in NamesOf(js[1].orange)
    /\ GoalTotal(js[1].orange) > GoalTotal(js[1].blue)
    /\ RowStats(rows[1]) = RecordStats(js[1].blue.players[1])
    /\ rows[1].outcome = "loss"

\* C19: every step of a get_with_retry call goes to a further attempt, at
\* most MAX_RETRY in all, returns the response of the attempt just made, or
\* raises; what the caller receives is always a response, never None, so
\* no caller fails for having received None.
C19_TwoExits ==
    /\ [][pc = "get" =>
            \/ /\ pc' = "get"
               /\ attempt < MAX_RETRY
               /\ attempt' = attempt + 1
            \/ /\ pc' = Resume
               /\ r' # NoResponse
               /\ r'.status \in Statuses
            \/ /\ pc' = "error"
               /\ err' \in {"ConnectionError", "RequestException"}]_vars
    /\ [](pc = "get" => attempt \in 1..MAX_RETRY /\ r = NoResponse)
    /\ [](Returned => r # NoResponse /\ r.status \in Statuses)
    /\ [](err # "AttributeError")

\* the last attempt of the first listing request has failed: the call has
\* raised, and nothing was returned
C19_Witness ==
    /\ pc = "error"
    /\ err = "ConnectionError"
    /\ caller = "list_replays"
    /\ pages = <<>>
    /\ attempt = MAX_RETRY
    /\ r = NoResponse

====
